---------------------------- MODULE Spec2Model ----------------------------
(***************************************************************************)
(* Shelf Scanner: the scan-processing pipeline (POST /api/scan and the     *)
(* processImage steps), the phased GET /api/scan/:id/recommendations call, *)
(* feedback, the two GeminiService versions and the GoogleBooksService,    *)
(* over the relational tables of database/schema.sql.                      *)
(*                                                                         *)
(* Three versions of scan.routes.ts are in the repository (route):         *)
(*   "async"  : responds 202 and runs processImage in the background       *)
(*   "budget" : awaits processImage inside the request (10 s budget)       *)
(*   "phased" : POST does detection only, GET .../recommendations phase 2  *)
(* and two versions of gemini.service.ts (svc): "retry" and "simple".      *)
(* Confidences and scores are in hundredths (DECIMAL(3,2)).                *)
(***************************************************************************)
EXTENDS Integers, Sequences, FiniteSets, Bags, TLC

\* ------------------------------------------------------------- bounds
\* candidates in one vision result
MaxBooks == 2
\* items in one recommendation result
MaxRecs == 1
\* GET .../recommendations requests in Spec, and in SpecRepeat
MaxRecCalls == 1
MaxRepeatCalls == 2
\* feedback rows per session
MaxFeedback == 1
\* reading_history rows per user
MaxHistory == 1
\* books in one enrichBookData call made on the service alone
MaxLookupBooks == 2
\* invocations of the phased Results component's polling effect for one
\* render (React invokes a mount effect twice in StrictMode), and the polling
\* loops the component has started in all
MaxEffectRuns == 2
MaxPolls == 4
\* candidates of a vision result when only the choice of the books handed to
\* recommendation generation is followed
MaxDetected == 6

\* ---------------------------------------------------- program constants
RecCap == 5
ScoreMax == 100
DefaultScore == 50
\* retryOperation(operation, retries = 3, delay = 1000)
Retries == 3
InitialDelay == 1000
\* pollResults of the non-phased Results component: maxAttempts = 30
MaxAttempts == 30

\* The model follows one scan session and every request made on it. Handlers
\* read and write only the rows of the session id they are given; the state
\* that sessions share is the metadata cache.
Sessions == {1}

\* JavaScript undefined / SQL NULL for a string and for a number
NULL == "NULL"
NoNum == 0 - 1000

\* the registered account; a request without a valid token is anonymous
Users == {"u1"}

Routes == {"async", "budget", "phased"}
Services == {"retry", "simple"}

\* ------------------------------------------ what the external models say
\* candidates the vision model may return
VisionBooks ==
  { [title |-> "Dune",    author |-> "Herbert", confidence |-> 95],
    [title |-> "Emma",    author |-> NULL,      confidence |-> 80],
    [title |-> "Ulysses", author |-> "Joyce",   confidence |-> 150],
    [title |-> NULL,      author |-> "Anon",    confidence |-> 50] }

\* items the recommendation model may return
RecItems ==
  { [title |-> "Hyperion",   author |-> "Simmons", score |-> 85],
    [title |-> "Persuasion", author |-> "Austen",  score |-> 0 - 20] }

\* the lists of at most n elements of S
SeqsUpTo(S, n) == UNION { [1..k -> S] : k \in 0..n }

\* the lists of at most n distinct elements of S
DistinctSeqsUpTo(S, n) ==
  { q \in SeqsUpTo(S, n) : \A i, j \in DOMAIN q : q[i] = q[j] => i = j }

\* the outcome of one generateContent call, as the service sees it
VisionOutcomes ==
  { [kind |-> k, books |-> <<>>] : k \in {"throw", "nojson", "nokey"} }
    \cup { [kind |-> "books", books |-> b] : b \in DistinctSeqsUpTo(VisionBooks, MaxBooks) }

RecOutcomes ==
  { [kind |-> k, recs |-> <<>>] : k \in {"throw", "nojson", "nokey"} }
    \cup { [kind |-> "recs", recs |-> r] : r \in SeqsUpTo(RecItems, MaxRecs) }

\* metadata: the empty object, or what the provider found for a query
EmptyMeta == "{}"
NoMeta == "null"
\* the metadata of the first volume the provider has for a query
MetaFor(q) == "meta:" \o q

VARIABLES
  route, svc,            \* the deployed versions
  nextId,                \* scan_sessions rows created so far
  sessions,              \* ids of the scan_sessions rows that exist
  status, error_message, \* scan_sessions.status / .error_message
  detected_books,        \* per session, the detected_books rows in insert order
  recommendations,       \* per session, the recommendations rows in insert order
  user_feedback,         \* per session, the number of user_feedback rows
  cache,                 \* GoogleBooksService.cache: key -> metadata
  pc,                    \* per session, where its POST /scan handler stands
  local,                 \* per session, the handler's local variables
  visionOut,             \* per session, what the vision call produced
  recOut,                \* per session, what the pipeline's recommendation call produced
  exitPath,              \* per session, the exit path the handler took
  p2,                    \* the bag of GET .../recommendations handlers in flight
  recCalls,              \* GET .../recommendations requests received so far
  providerOk,            \* the metadata provider has answered a lookup with a volume
  users,                 \* ids of the users rows that exist
  user_id,               \* scan_sessions.user_id
  uploader,              \* per session, the caller of its POST /api/scan
  reading_history,       \* per user, the number of reading_history rows
  resp,                  \* the last HTTP response sent
  late,                  \* per session, the enrichments that outlasted the 3 s window
  retry,                 \* one GeminiService.retryOperation call
  lookup,                \* the last GoogleBooksService call and its result
  pool,                  \* the pg pool's clients and the Database calls in flight
  slice,                 \* the books handed to recommendation generation
  viewer,                \* the phased Results component
  poller                 \* the polling loop of the non-phased Results component

vars == <<route, svc, nextId, sessions, status, error_message, detected_books,
          recommendations, user_feedback, cache, pc, local, visionOut, recOut,
          exitPath, p2, recCalls, providerOk, users, user_id, uploader,
          reading_history, resp, late, retry, lookup, pool, slice, viewer, poller>>

\* the state outside the scan routes: the services' own calls, the connection
\* pool and the two Results components
aux == <<retry, lookup, pool, slice, viewer, poller>>


\* ------------------------------------------------------------ helpers
Min(a, b) == IF a < b THEN a ELSE b
Max(a, b) == IF a > b THEN a ELSE b
Take(q, n) == [i \in 1..Min(n, Len(q)) |-> q[i]]
\* `${x}` of a possibly undefined string
Str(x) == IF x = NULL THEN "undefined" ELSE x

\* ------------------------------------------------- database/schema.sql
\* INSERT INTO detected_books: the foreign key, title NOT NULL and the
\* CHECK on confidence_score (a NULL passes a CHECK)
DetectedBookInsertOk(s, b) ==
  /\ s \in sessions
  /\ b.title # NULL
  /\ (b.confidence = NoNum \/ (b.confidence >= 0 /\ b.confidence <= ScoreMax))

DetectedBookInsertError(s, b) ==
  IF s \notin sessions THEN "violates foreign key constraint"
  ELSE IF b.title = NULL THEN "violates not-null constraint"
  ELSE "violates check constraint"

\* INSERT INTO recommendations: the foreign key and the CHECK on
\* recommendation_score; title and author are nullable
RecommendationInsertOk(s, r) ==
  /\ s \in sessions
  /\ (r.score = NoNum \/ (r.score >= 0 /\ r.score <= ScoreMax))

\* ------------------------------------------------------ GeminiService
\* detectBooksFromImage: threw / msg, or the parsed object (hasBooks: its
\* books field is present)
DetectSimple(o) ==
  CASE o.kind = "throw"  -> [threw |-> TRUE, msg |-> "fetch failed", hasBooks |-> FALSE, books |-> <<>>]
    [] o.kind = "nojson" -> [threw |-> TRUE, msg |-> "No JSON in response", hasBooks |-> FALSE, books |-> <<>>]
    [] o.kind = "nokey"  -> [threw |-> FALSE, msg |-> "", hasBooks |-> FALSE, books |-> <<>>]
    [] OTHER             -> [threw |-> FALSE, msg |-> "", hasBooks |-> TRUE, books |-> o.books]

DetectRetry(o) ==
  IF o.kind = "books"
  THEN [threw |-> FALSE, msg |-> "", hasBooks |-> TRUE, books |-> o.books]
  ELSE [threw |-> TRUE, msg |-> "Failed to process image with Gemini after retries",
        hasBooks |-> FALSE, books |-> <<>>]

DetectBooksFromImage(v, o) == IF v = "retry" THEN DetectRetry(o) ELSE DetectSimple(o)

Clamp(x) == Max(0, Min(ScoreMax, x))

Placeholder == [title |-> "Unknown Title", author |-> "Unknown Author", score |-> DefaultScore]

NormalizeRec(r) ==
  [title  |-> IF r.title = NULL THEN "Unknown Title" ELSE r.title,
   author |-> IF r.author = NULL THEN "Unknown Author" ELSE r.author,
   score  |-> Clamp(IF r.score = NoNum THEN DefaultScore ELSE r.score)]

\* generateRecommendationsBatch: undef when the call returns undefined
RecsRetry(books, o) ==
  IF o.kind = "recs"
  THEN [undef |-> FALSE, recs |-> [i \in 1..Len(o.recs) |-> NormalizeRec(o.recs[i])]]
  ELSE [undef |-> FALSE, recs |-> [i \in 1..Len(books) |-> Placeholder]]

RecsSimple(books, o) ==
  CASE o.kind = "recs"  -> [undef |-> FALSE, recs |-> o.recs]
    [] o.kind = "nokey" -> [undef |-> TRUE, recs |-> <<>>]
    [] OTHER            -> [undef |-> FALSE, recs |-> <<>>]

GenerateRecommendationsBatch(v, books, o) ==
  IF v = "retry" THEN RecsRetry(books, o) ELSE RecsSimple(books, o)

\* -------------------------------------------------- GoogleBooksService
LookupOutcomes == {"fail", "none", "found"}

CacheKey(title, author) ==
  "book:" \o Str(title) \o ":" \o (IF author = NULL THEN "noauthor" ELSE author)

\* q = intitle:<title>[+inauthor:<author>]
Query(title, author) ==
  "intitle:" \o Str(title) \o (IF author = NULL THEN "" ELSE "+inauthor:" \o author)

IsbnKey(isbn) == "isbn:" \o isbn
IsbnQuery(isbn) == "isbn:" \o isbn

Cached(k, c) == \E e \in c : e.key = k
CacheGet(k, c) == (CHOOSE e \in c : e.key = k).meta

\* searchBook: a cache hit, else the provider's answer; every error is caught
SearchBook(title, author, outcome, c) ==
  IF Cached(CacheKey(title, author), c) THEN CacheGet(CacheKey(title, author), c)
  ELSE IF outcome = "found" THEN MetaFor(Query(title, author))
  ELSE NoMeta

\* getBookByISBN: the same under the key isbn:<isbn>
GetBookByISBN(isbn, outcome, c) ==
  IF Cached(IsbnKey(isbn), c) THEN CacheGet(IsbnKey(isbn), c)
  ELSE IF outcome = "found" THEN MetaFor(IsbnQuery(isbn))
  ELSE NoMeta

\* book.isbn (the routes pass objects of title and author only)
Isbn(b) == IF "isbn" \in DOMAIN b THEN b.isbn ELSE NULL

KeyOf(b) == IF Isbn(b) # NULL THEN IsbnKey(b.isbn) ELSE CacheKey(b.title, b.author)
QueryOf(b) == IF Isbn(b) # NULL THEN IsbnQuery(b.isbn) ELSE Query(b.title, b.author)

\* the lookup enrichBookData starts for one book
LookupOne(b, outcome, c) ==
  IF Isbn(b) # NULL THEN GetBookByISBN(b.isbn, outcome, c)
  ELSE SearchBook(b.title, b.author, outcome, c)

\* enrichBookData: Promise.all over the books; every lookup reads the cache
\* before any answer arrives
EnrichBookData(books, outs, c) ==
  [i \in 1..Len(books) |-> LookupOne(books[i], outs[i], c)]

\* cache.set of every lookup the provider answered (a later set of the same
\* key overwrites the earlier one)
CacheAfter(books, outs, c) ==
  LET found == { i \in 1..Len(books) : ~Cached(KeyOf(books[i]), c) /\ outs[i] = "found" }
      last(i) == \A j \in found : KeyOf(books[j]) = KeyOf(books[i]) => j <= i
  IN  c \cup { [key |-> KeyOf(books[i]), meta |-> MetaFor(QueryOf(books[i]))] :
                 i \in { j \in found : last(j) } }

\* a lookup in outs was answered with a volume by the provider
ProviderAnswered(books, outs, c) ==
  \E i \in 1..Len(books) : ~Cached(KeyOf(books[i]), c) /\ outs[i] = "found"

\* faulty variant: JSON.stringify(metadata), without the || {}
RawMeta(m) == m

\* JSON.stringify(metadata || {}) as stored in a metadata column
StoredMeta(m) == IF m = NoMeta THEN EmptyMeta ELSE m

\* ------------------------------------------------------------- state
NoLocal == [books |-> <<>>, enriched |-> <<>>, recs |-> <<>>, undef |-> FALSE,
            enrichedRecs |-> <<>>, i |-> 0, err |-> "", from |-> ""]

NoOutcome == [kind |-> "none"]

\* an HTTP response: the endpoint, the session id of the request, the status
\* code and the fields of the JSON body (absent fields are NULL / empty)
Response(op, s, code, st, err, books, recs) ==
  [op |-> op, sid |-> s, code |-> code, status |-> st, error |-> err,
   detectedBooks |-> books, recommendations |-> recs]

NoResponse == Response("none", 0, 0, NULL, NULL, <<>>, <<>>)

\* no enrichment of the session has outlasted the window
NoneLate == [books |-> FALSE, recs |-> FALSE]

\* a retryOperation call: where it stands, its loop index i and delay, the
\* outcome of every attempt made and the waits it has started
RetryCall(at, i, delay, outs, waits) ==
  [at |-> at, i |-> i, delay |-> delay, outs |-> outs, waits |-> waits]

NoRetry == RetryCall("idle", 0, 0, <<>>, <<>>)

\* a call of the GoogleBooksService: the method, the books it was given, the
\* provider's answer to each lookup and what the call returned
ServiceCall(op, books, outs, result) ==
  [op |-> op, books |-> books, outs |-> outs, result |-> result]

NoLookup == ServiceCall("none", <<>>, <<>>, <<>>)

\* the books handed to generateRecommendationsBatch: by which handler, out
\* of which detection result (in detection order), and the books sent
Slice(via, detected, sent) == [via |-> via, detected |-> detected, sent |-> sent]

NoSlice == Slice("none", <<>>, <<>>)

\* the polling loop of the non-phased Results component: where it stands,
\* its attempts counter, the requests sent, the component's status and error
\* and the last answer received
Poller(at, attempts, requests, st, err, last) ==
  [at |-> at, attempts |-> attempts, requests |-> requests, status |-> st, error |-> err,
   last |-> last]

NoPoller == Poller("idle", 0, 0, "loading", NULL, "none")

\* the phased Results component for one sessionId: its recStatus state, the
\* effect invocations still due, its polling loops (each with the recStatus
\* its fetchRecommendations closure captured), the GET .../recommendations
\* requests sent and in flight, and the session's status on the server
Viewer(recStatus, due, polls, requests, inflight, srv) ==
  [recStatus |-> recStatus, due |-> due, polls |-> polls, requests |-> requests,
   inflight |-> inflight, srv |-> srv]

NoViewer == Viewer("none", 0, <<>>, 0, 0, "processing")

\* the Database object: its version, the clients borrowed from the pool and
\* not released, the release() calls made on each client, where the startup
\* connection test and a transaction() call stand, and whether the
\* transaction has an error to rethrow
Database(version, out, released, test, tx, txErr) ==
  [version |-> version, out |-> out, released |-> released, test |-> test, tx |-> tx,
   txErr |-> txErr]

NoPool == Database("none", {}, [c \in {"test", "tx"} |-> 0], "none", "none", FALSE)


Init ==
  /\ route \in Routes
  /\ svc \in Services
  /\ nextId = 0
  /\ sessions = {}
  /\ status = [s \in Sessions |-> "none"]
  /\ error_message = [s \in Sessions |-> NULL]
  /\ detected_books = [s \in Sessions |-> <<>>]
  /\ recommendations = [s \in Sessions |-> <<>>]
  /\ user_feedback = [s \in Sessions |-> 0]
  /\ cache = {}
  /\ pc = [s \in Sessions |-> "none"]
  /\ local = [s \in Sessions |-> NoLocal]
  /\ visionOut = [s \in Sessions |-> NoOutcome]
  /\ recOut = [s \in Sessions |-> NoOutcome]
  /\ exitPath = [s \in Sessions |-> "none"]
  /\ p2 = EmptyBag
  /\ recCalls = 0
  /\ providerOk = FALSE
  /\ users = Users
  /\ user_id = [s \in Sessions |-> NULL]
  /\ uploader = [s \in Sessions |-> NULL]
  /\ reading_history = [u \in Users |-> 0]
  /\ resp = NoResponse
  /\ late = [s \in Sessions |-> NoneLate]
  /\ retry = NoRetry
  /\ lookup = NoLookup
  /\ pool = NoPool
  /\ slice = NoSlice
  /\ viewer = NoViewer
  /\ poller = NoPoller

\* UPDATE scan_sessions SET status = st [, error_message = msg] WHERE id = s
\* (no row, no change)
SetStatus(s, st) == IF s \in sessions THEN [status EXCEPT ![s] = st] ELSE status
SetError(s, msg) == IF s \in sessions THEN [error_message EXCEPT ![s] = msg] ELSE error_message

\* ------------------------------------------------- POST /api/scan
\* what err.statusCode || 500 gives (errorHandler)
ErrorHandlerStatus(statusCode) == IF statusCode \in {NoNum, 0} THEN 500 ELSE statusCode

\* the uploads that never reach the INSERT: no file part (the handler's own
\* test), a file multer's fileFilter refuses, a file over limits.fileSize;
\* multer's errors carry no statusCode and go to errorHandler
UploadFaults == {"nofile", "nonimage", "toolarge"}

RejectedUploadStatus(fault) == IF fault = "nofile" THEN 400 ELSE ErrorHandlerStatus(NoNum)

RejectedUploadError(fault) ==
  IF fault = "nofile" THEN "No image file provided" ELSE "Internal server error"

RejectUpload ==
  /\ \E fault \in UploadFaults :
       resp' = Response("scan", 0, RejectedUploadStatus(fault), NULL,
                        RejectedUploadError(fault), <<>>, <<>>)
  /\ UNCHANGED <<users, user_id, uploader, reading_history, late, aux, route, svc, nextId, sessions,
                 status, error_message, detected_books, recommendations, user_feedback, cache,
                 pc, local, visionOut, recOut, exitPath, p2, recCalls, providerOk>>

\* INSERT INTO scan_sessions: user_id references users
SessionInsertOk(u) == u = NULL \/ u \in users

\* the session row is inserted in processing, with the caller's user id, and
\* the pipeline starts; a foreign-key violation answers 500 and creates nothing
StartScan(u) ==
  /\ nextId < Cardinality(Sessions)
  /\ IF SessionInsertOk(u)
     THEN LET s == nextId + 1 IN
            /\ nextId' = s
            /\ sessions' = sessions \cup {s}
            /\ status' = [status EXCEPT ![s] = "processing"]
            /\ user_id' = [user_id EXCEPT ![s] = u]
            /\ uploader' = [uploader EXCEPT ![s] = u]
            /\ pc' = [pc EXCEPT ![s] = "detect"]
            /\ resp' = resp
     ELSE /\ resp' = Response("scan", 0, 500, NULL,
                              IF route = "phased" THEN "Upload failed"
                              ELSE "Failed to process upload", <<>>, <<>>)
          /\ UNCHANGED <<nextId, sessions, status, user_id, uploader, pc>>
  /\ UNCHANGED <<users, reading_history, late, aux, route, svc, error_message, detected_books,
                 recommendations, user_feedback, cache, local, visionOut, recOut, exitPath,
                 p2, recCalls, providerOk>>

\* where the handler goes once the books are inserted
AfterInsert == CASE route = "async"  -> "recs"
                 [] route = "budget" -> "parallel"
                 [] OTHER            -> "markDetection"

\* Step 1: geminiService.detectBooksFromImage and the branch on its result
DetectBooks(s) ==
  /\ pc[s] = "detect"
  /\ \E o \in VisionOutcomes :
       LET r == DetectBooksFromImage(svc, o) IN
         /\ visionOut' = [visionOut EXCEPT ![s] = o]
         /\ IF r.threw
            THEN /\ pc' = [pc EXCEPT ![s] = "catch"]
                 /\ local' = [local EXCEPT ![s].err = r.msg, ![s].from = "detection"]
            ELSE IF ~r.hasBooks \/ Len(r.books) = 0
            THEN /\ pc' = [pc EXCEPT ![s] = "noBooks"]
                 /\ local' = local
            ELSE /\ pc' = [pc EXCEPT ![s] = IF route = "async" THEN "enrich" ELSE "insert"]
                 /\ local' = [local EXCEPT ![s].books = r.books, ![s].i = 1]
  /\ UNCHANGED <<users, user_id, uploader, reading_history, resp, late, aux, route, svc, nextId, sessions, status, error_message, detected_books,
                 recommendations, user_feedback, cache, recOut, exitPath, p2, recCalls,
                 providerOk>>

NoBooksMessage == IF route = "phased" THEN "No books detected" ELSE "No books detected in image"

\* faulty variant: the empty result is not treated as a failure
NoBooksCompleted(s) ==
  /\ pc[s] = "noBooks"
  /\ status' = SetStatus(s, "completed")
  /\ pc' = [pc EXCEPT ![s] = "done"]
  /\ exitPath' = [exitPath EXCEPT ![s] = "nobooks"]
  /\ local' = [local EXCEPT ![s] = NoLocal]
  /\ UNCHANGED <<users, user_id, uploader, reading_history, resp, late, aux, route, svc, nextId, sessions, error_message, detected_books, recommendations,
                 user_feedback, cache, visionOut, recOut, p2, recCalls, providerOk>>

\* the empty-result branch: UPDATE ... 'failed', 'No books detected in image'
FailNoBooks(s) ==
  /\ pc[s] = "noBooks"
  /\ status' = SetStatus(s, "failed")
  /\ error_message' = SetError(s, NoBooksMessage)
  /\ pc' = [pc EXCEPT ![s] = "done"]
  /\ exitPath' = [exitPath EXCEPT ![s] = "nobooks"]
  /\ local' = [local EXCEPT ![s] = NoLocal]
  /\ UNCHANGED <<users, user_id, uploader, reading_history, resp, late, aux, route, svc, nextId, sessions, detected_books, recommendations,
                 user_feedback, cache, visionOut, recOut, p2, recCalls, providerOk>>

\* the catch block: UPDATE ... 'failed', error.message
CatchMessage(msg) == IF route = "async" /\ msg = "" THEN "Internal processing error" ELSE msg

\* faulty variant: the catch block writes the status without the message
CatchNoMessage(s) ==
  /\ pc[s] = "catch"
  /\ status' = SetStatus(s, "failed")
  /\ pc' = [pc EXCEPT ![s] = "done"]
  /\ exitPath' = [exitPath EXCEPT ![s] = "error in " \o local[s].from]
  /\ local' = [local EXCEPT ![s] = NoLocal]
  /\ UNCHANGED <<users, user_id, uploader, reading_history, resp, late, aux, route, svc, nextId, sessions, error_message, detected_books, recommendations,
                 user_feedback, cache, visionOut, recOut, p2, recCalls, providerOk>>

\* faulty variant: the catch block only logs
CatchLogOnly(s) ==
  /\ pc[s] = "catch"
  /\ pc' = [pc EXCEPT ![s] = "done"]
  /\ exitPath' = [exitPath EXCEPT ![s] = "error in " \o local[s].from]
  /\ local' = [local EXCEPT ![s] = NoLocal]
  /\ UNCHANGED <<users, user_id, uploader, reading_history, resp, late, aux, route, svc, nextId, sessions, status, error_message, detected_books,
                 recommendations, user_feedback, cache, visionOut, recOut, p2, recCalls,
                 providerOk>>

CatchFailed(s) ==
  /\ pc[s] = "catch"
  /\ status' = SetStatus(s, "failed")
  /\ error_message' = SetError(s, CatchMessage(local[s].err))
  /\ pc' = [pc EXCEPT ![s] = "done"]
  /\ exitPath' = [exitPath EXCEPT ![s] = "error in " \o local[s].from]
  /\ local' = [local EXCEPT ![s] = NoLocal]
  /\ UNCHANGED <<users, user_id, uploader, reading_history, resp, late, aux, route, svc, nextId, sessions, detected_books, recommendations,
                 user_feedback, cache, visionOut, recOut, p2, recCalls, providerOk>>

\* Step 2 of the async version: googleBooksService.enrichBookData before the
\* inserts
EnrichBooks(s) ==
  /\ pc[s] = "enrich"
  /\ \E outs \in [1..Len(local[s].books) -> LookupOutcomes] :
       /\ local' = [local EXCEPT ![s].enriched = EnrichBookData(local[s].books, outs, cache)]
       /\ cache' = CacheAfter(local[s].books, outs, cache)
       /\ providerOk' = (providerOk \/ ProviderAnswered(local[s].books, outs, cache))
  /\ pc' = [pc EXCEPT ![s] = "insert"]
  /\ UNCHANGED <<users, user_id, uploader, reading_history, resp, late, aux, route, svc, nextId, sessions, status, error_message, detected_books,
                 recommendations, user_feedback, visionOut, recOut, exitPath, p2, recCalls>>

\* the metadata column of a new detected_books row
InsertedMeta(s) ==
  IF route = "async" THEN StoredMeta(local[s].enriched[local[s].i]) ELSE EmptyMeta

DetectedRow(b, m) ==
  [title |-> b.title, author |-> b.author, confidence_score |-> b.confidence, metadata |-> m]

\* one INSERT INTO detected_books of the save loop; a constraint violation
\* throws into the catch block
InsertDetectedBook(s) ==
  /\ pc[s] = "insert"
  /\ LET b == local[s].books[local[s].i] IN
       IF DetectedBookInsertOk(s, b)
       THEN /\ detected_books' =
                 [detected_books EXCEPT ![s] = Append(@, DetectedRow(b, InsertedMeta(s)))]
            /\ IF local[s].i < Len(local[s].books)
               THEN /\ local' = [local EXCEPT ![s].i = @ + 1]
                    /\ pc' = pc
               ELSE /\ local' = [local EXCEPT ![s].i = 1]
                    /\ pc' = [pc EXCEPT ![s] = AfterInsert]
       ELSE /\ detected_books' = detected_books
            /\ local' = [local EXCEPT ![s].err = DetectedBookInsertError(s, b),
                                       ![s].from = "detection"]
            /\ pc' = [pc EXCEPT ![s] = "catch"]
  /\ UNCHANGED <<users, user_id, uploader, reading_history, resp, late, aux, route, svc, nextId, sessions, status, error_message, recommendations,
                 user_feedback, cache, visionOut, recOut, exitPath, p2, recCalls, providerOk>>

\* phased version: UPDATE ... status = 'completed_detection' and the response
MarkDetection(s) ==
  /\ pc[s] = "markDetection"
  /\ status' = SetStatus(s, "completed_detection")
  /\ pc' = [pc EXCEPT ![s] = "done"]
  /\ exitPath' = [exitPath EXCEPT ![s] = "ok"]
  /\ local' = [local EXCEPT ![s] = NoLocal]
  /\ UNCHANGED <<users, user_id, uploader, reading_history, resp, late, aux, route, svc, nextId, sessions, error_message, detected_books,
                 recommendations, user_feedback, cache, visionOut, recOut, p2, recCalls, providerOk>>

\* async version, Step 4: generateRecommendationsBatch inside the inner try;
\* an undefined result throws at recommendations.map and is only logged
GenerateRecs(s) ==
  /\ pc[s] = "recs"
  /\ \E o \in RecOutcomes :
       LET r == GenerateRecommendationsBatch(svc, Take(local[s].books, RecCap), o) IN
         /\ recOut' = [recOut EXCEPT ![s] = o]
         /\ IF r.undef
            THEN /\ pc' = [pc EXCEPT ![s] = "complete"]
                 /\ local' = local
            ELSE /\ pc' = [pc EXCEPT ![s] = "enrichRecs"]
                 /\ local' = [local EXCEPT ![s].recs = r.recs]
  /\ UNCHANGED <<users, user_id, uploader, reading_history, resp, late, aux, route, svc, nextId, sessions, status, error_message, detected_books,
                 recommendations, user_feedback, cache, visionOut, exitPath, p2, recCalls,
                 providerOk>>

\* budget version, Step 3: Promise.all of enrichBookData and
\* generateRecommendationsBatch; no timer runs beside the lookups of the
\* detected books, so the handler waits for them however slow they are
\* (slow: they took more than the 3 s the recommendations' lookups are given)
EnrichAndRecommend(s) ==
  /\ pc[s] = "parallel"
  /\ \E outs \in [1..Len(local[s].books) -> LookupOutcomes], o \in RecOutcomes,
        slow \in BOOLEAN :
       LET r == GenerateRecommendationsBatch(svc, Take(local[s].books, RecCap), o) IN
         /\ late' = [late EXCEPT ![s].books = slow]
         /\ local' = [local EXCEPT
                        ![s].enriched = EnrichBookData(local[s].books, outs, cache),
                        ![s].recs = r.recs,
                        ![s].undef = r.undef,
                        ![s].i = 1]
         /\ recOut' = [recOut EXCEPT ![s] = o]
         /\ cache' = CacheAfter(local[s].books, outs, cache)
         /\ providerOk' = (providerOk \/ ProviderAnswered(local[s].books, outs, cache))
  /\ pc' = [pc EXCEPT ![s] = "updateMeta"]
  /\ UNCHANGED <<users, user_id, uploader, reading_history, resp, aux, route, svc, nextId, sessions, status, error_message, detected_books,
                 recommendations, user_feedback, visionOut, exitPath, p2, recCalls>>

\* UPDATE detected_books SET metadata = m WHERE id = the i-th inserted row
UpdatedRows(rows, i, m) ==
  IF i \in DOMAIN rows THEN [rows EXCEPT ![i].metadata = m] ELSE rows

\* budget version, Step 4: one turn of the update loop, then the test of
\* recommendations.length (a TypeError when the result is undefined)
UpdateBookMetadata(s) ==
  /\ pc[s] = "updateMeta"
  /\ LET i == local[s].i
         m == local[s].enriched[i] IN
       /\ detected_books' =
            IF m # NoMeta
            THEN [detected_books EXCEPT ![s] = UpdatedRows(@, i, m)]
            ELSE detected_books
       /\ IF i < Len(local[s].books)
          THEN /\ local' = [local EXCEPT ![s].i = i + 1]
               /\ pc' = pc
          ELSE IF local[s].undef
          THEN /\ local' = [local EXCEPT
                              ![s].err = "Cannot read properties of undefined (reading 'length')",
                              ![s].from = "recommendation"]
               /\ pc' = [pc EXCEPT ![s] = "catch"]
          ELSE /\ local' = [local EXCEPT ![s].i = 1]
               /\ pc' = [pc EXCEPT ![s] =
                           IF Len(local[s].recs) > 0 THEN "enrichRecs" ELSE "complete"]
  /\ UNCHANGED <<users, user_id, uploader, reading_history, resp, late, aux, route, svc, nextId, sessions, status, error_message, recommendations,
                 user_feedback, cache, visionOut, recOut, exitPath, p2, recCalls, providerOk>>

\* enrichBookData of the recommendations; in the budget version it races a
\* 3 s timer, and the lookups still fill the cache when the timer wins
EnrichRecs(s) ==
  /\ pc[s] = "enrichRecs"
  /\ \E outs \in [1..Len(local[s].recs) -> LookupOutcomes], timedOut \in BOOLEAN :
       /\ timedOut => route = "budget"
       /\ late' = [late EXCEPT ![s].recs = timedOut]
       /\ local' = [local EXCEPT
                      ![s].enrichedRecs =
                         IF timedOut THEN [i \in 1..Len(local[s].recs) |-> NoMeta]
                         ELSE EnrichBookData(local[s].recs, outs, cache),
                      ![s].i = 1]
       /\ cache' = CacheAfter(local[s].recs, outs, cache)
       /\ providerOk' = (providerOk \/ ProviderAnswered(local[s].recs, outs, cache))
  /\ pc' = [pc EXCEPT ![s] = IF Len(local[s].recs) > 0 THEN "insertRec" ELSE "complete"]
  /\ UNCHANGED <<users, user_id, uploader, reading_history, resp, aux, route, svc, nextId, sessions, status, error_message, detected_books,
                 recommendations, user_feedback, visionOut, recOut, exitPath, p2, recCalls>>

RecommendationRow(r, rank, m) ==
  [title |-> r.title, author |-> r.author, recommendation_score |-> r.score,
   rank |-> rank, metadata |-> m]

\* one INSERT INTO recommendations with rank i + 1; a constraint violation is
\* logged by the inner catch (async) or thrown to the outer catch (budget)
InsertRecommendation(s) ==
  /\ pc[s] = "insertRec"
  /\ LET i == local[s].i
         r == local[s].recs[i] IN
       IF RecommendationInsertOk(s, r)
       THEN /\ recommendations' =
                 [recommendations EXCEPT ![s] =
                    Append(@, RecommendationRow(r, i, StoredMeta(local[s].enrichedRecs[i])))]
            /\ IF i < Len(local[s].recs)
               THEN /\ local' = [local EXCEPT ![s].i = i + 1]
                    /\ pc' = pc
               ELSE /\ local' = local
                    /\ pc' = [pc EXCEPT ![s] = "complete"]
       ELSE /\ recommendations' = recommendations
            /\ IF route = "async"
               THEN /\ local' = local
                    /\ pc' = [pc EXCEPT ![s] = "complete"]
               ELSE /\ local' = [local EXCEPT ![s].err = "violates check constraint",
                                          ![s].from = "recommendation"]
                    /\ pc' = [pc EXCEPT ![s] = "catch"]
  /\ UNCHANGED <<users, user_id, uploader, reading_history, resp, late, aux, route, svc, nextId, sessions, status, error_message, detected_books,
                 user_feedback, cache, visionOut, recOut, exitPath, p2, recCalls, providerOk>>

\* the last step: UPDATE ... status = 'completed'
MarkCompleted(s) ==
  /\ pc[s] = "complete"
  /\ status' = SetStatus(s, "completed")
  /\ pc' = [pc EXCEPT ![s] = "done"]
  /\ exitPath' = [exitPath EXCEPT ![s] = "ok"]
  /\ local' = [local EXCEPT ![s] = NoLocal]
  /\ UNCHANGED <<users, user_id, uploader, reading_history, resp, late, aux, route, svc, nextId, sessions, error_message, detected_books,
                 recommendations, user_feedback, cache, visionOut, recOut, p2, recCalls, providerOk>>

\* --------------------------- GET /api/scan/:sessionId/recommendations
\* A handler in flight: where it stands, its session id, the rows it read,
\* the recommendations it was given and its loop index.
Handler(at, s, books, recs, i) ==
  [pc |-> at, sid |-> s, books |-> books, recs |-> recs, i |-> i]

Replace(h, g) == (p2 (-) SetToBag({h})) (+) SetToBag({g})
Finish(h) == p2 (-) SetToBag({h})

\* a SELECT without ORDER BY returns the rows in an order the database
\* chooses
SelectUnordered(rows) ==
  { [i \in 1..Len(rows) |-> rows[f[i]]] : f \in Permutations(1..Len(rows)) }

\* faulty variant: no 404 when the session has no detected book
RecsSelectNo404(s, limit) ==
  /\ route = "phased"
  /\ recCalls < limit
  /\ recCalls' = recCalls + 1
  /\ \E rows \in SelectUnordered(detected_books[s]) :
       p2' = p2 (+) SetToBag({Handler("generate", s, Take(rows, RecCap), <<>>, 0)})
  /\ UNCHANGED <<users, user_id, uploader, reading_history, resp, late, aux, route, svc, nextId, sessions, status, error_message, detected_books,
                 recommendations, user_feedback, cache, pc, local, visionOut, recOut, exitPath,
                 providerOk>>

\* SELECT title, author FROM detected_books WHERE scan_session_id = s;
\* 404 when there is none. No check of the session row or of its status.
\* (limit: the number of such requests the run makes)
RecsSelectBooks(s, limit) ==
  /\ route = "phased"
  /\ recCalls < limit
  /\ recCalls' = recCalls + 1
  /\ \E rows \in SelectUnordered(detected_books[s]) :
       p2' = IF Len(rows) = 0
             THEN p2
             ELSE p2 (+) SetToBag({Handler("generate", s, Take(rows, RecCap), <<>>, 0)})
  /\ UNCHANGED <<users, user_id, uploader, reading_history, resp, late, aux, route, svc, nextId, sessions, status, error_message, detected_books,
                 recommendations, user_feedback, cache, pc, local, visionOut, recOut, exitPath,
                 providerOk>>

\* generateRecommendationsBatch(rows.slice(0, 5), {}, []); an undefined result
\* throws at recommendations.length and the catch answers 500
RecsGenerate(h) ==
  /\ h.pc = "generate"
  /\ \E o \in RecOutcomes :
       LET r == GenerateRecommendationsBatch(svc, h.books, o) IN
         p2' = IF r.undef THEN Finish(h)
               ELSE Replace(h, Handler(IF Len(r.recs) > 0 THEN "insert" ELSE "mark",
                                       h.sid, <<>>, r.recs, 1))
  /\ UNCHANGED <<users, user_id, uploader, reading_history, resp, late, aux, route, svc, nextId, sessions, status, error_message, detected_books,
                 recommendations, user_feedback, cache, pc, local, visionOut, recOut, exitPath,
                 recCalls, providerOk>>

\* one INSERT INTO recommendations with rank i + 1 (no metadata column: the
\* default '{}'); a constraint violation answers 500
RecsInsert(h) ==
  /\ h.pc = "insert"
  /\ LET r == h.recs[h.i] IN
       IF RecommendationInsertOk(h.sid, r)
       THEN /\ recommendations' =
                 [recommendations EXCEPT ![h.sid] =
                    Append(@, RecommendationRow(r, h.i, EmptyMeta))]
            /\ p2' = Replace(h, IF h.i < Len(h.recs) THEN [h EXCEPT !.i = @ + 1]
                                ELSE Handler("mark", h.sid, <<>>, <<>>, 0))
       ELSE /\ recommendations' = recommendations
            /\ p2' = Finish(h)
  /\ UNCHANGED <<users, user_id, uploader, reading_history, resp, late, aux, route, svc, nextId, sessions, status, error_message, detected_books,
                 user_feedback, cache, pc, local, visionOut, recOut, exitPath, recCalls, providerOk>>

\* UPDATE scan_sessions SET status = 'completed' WHERE id = s, then the
\* SELECT of the saved rows and the 200 response
RecsMarkCompleted(h) ==
  /\ h.pc = "mark"
  /\ status' = SetStatus(h.sid, "completed")
  /\ p2' = Finish(h)
  /\ UNCHANGED <<users, user_id, uploader, reading_history, resp, late, aux, route, svc, nextId, sessions, error_message, detected_books,
                 recommendations, user_feedback, cache, pc, local, visionOut, recOut, exitPath,
                 recCalls, providerOk>>

\* ------------------------------- POST /api/scan/:sessionId/feedback
\* faulty variant: feedback on an existing session also marks it completed
FeedbackMarksSession(s) ==
  /\ route # "phased"
  /\ s \in sessions
  /\ user_feedback[s] < MaxFeedback
  /\ user_feedback' = [user_feedback EXCEPT ![s] = @ + 1]
  /\ status' = SetStatus(s, "completed")
  /\ resp' = Response("feedback", s, 200, NULL, NULL, <<>>, <<>>)
  /\ UNCHANGED <<users, user_id, uploader, reading_history, late, aux, route, svc, nextId, sessions,
                 error_message, detected_books, recommendations, cache, pc, local,
                 visionOut, recOut, exitPath, p2, recCalls, providerOk>>

\* INSERT INTO user_feedback of a well-formed feedback body; the foreign key
\* rejects an unknown session and the catch answers 500
SubmitFeedback(s) ==
  /\ route # "phased"
  /\ IF s \in sessions
     THEN /\ user_feedback[s] < MaxFeedback
          /\ user_feedback' = [user_feedback EXCEPT ![s] = @ + 1]
          /\ resp' = Response("feedback", s, 200, NULL, NULL, <<>>, <<>>)
     ELSE /\ user_feedback' = user_feedback
          /\ resp' = Response("feedback", s, 500, NULL, "Failed to submit feedback", <<>>, <<>>)
  /\ UNCHANGED <<users, user_id, uploader, reading_history, late, aux, route, svc, nextId, sessions,
                 status, error_message, detected_books, recommendations, cache, pc, local,
                 visionOut, recOut, exitPath, p2, recCalls, providerOk>>

\* the phased scan.routes.ts has no feedback route: notFoundHandler answers
FeedbackNoRoute(s) ==
  /\ route = "phased"
  /\ resp' = Response("feedback", s, 404, NULL, "Route not found", <<>>, <<>>)
  /\ UNCHANGED <<users, user_id, uploader, reading_history, late, aux, route, svc, nextId, sessions,
                 status, error_message, detected_books, recommendations, user_feedback, cache,
                 pc, local, visionOut, recOut, exitPath, p2, recCalls, providerOk>>

\* ------------------------------------------- GET /api/scan/:sessionId
Remove(q, m) == [i \in 1..(Len(q) - 1) |-> IF i < m THEN q[i] ELSE q[i + 1]]

\* ORDER BY confidence_score DESC (rows of equal score in table order)
RECURSIVE OrderByConfidenceDesc(_)
OrderByConfidenceDesc(rows) ==
  IF rows = <<>> THEN <<>>
  ELSE LET m == CHOOSE i \in DOMAIN rows :
                  \A j \in DOMAIN rows :
                     \/ rows[j].confidence_score < rows[i].confidence_score
                     \/ rows[j].confidence_score = rows[i].confidence_score /\ i <= j
       IN  <<rows[m]>> \o OrderByConfidenceDesc(Remove(rows, m))

\* ORDER BY rank ASC (rows of equal rank in table order)
RECURSIVE OrderByRankAsc(_)
OrderByRankAsc(rows) ==
  IF rows = <<>> THEN <<>>
  ELSE LET m == CHOOSE i \in DOMAIN rows :
                  \A j \in DOMAIN rows :
                     \/ rows[j].rank > rows[i].rank
                     \/ rows[j].rank = rows[i].rank /\ i <= j
       IN  <<rows[m]>> \o OrderByRankAsc(Remove(rows, m))

\* async and budget versions: 404, the status alone while processing, the
\* status and the stored message when failed, else 'completed' with the rows
GetSessionFull(s) ==
  IF s \notin sessions
  THEN Response("get", s, 404, NULL, "Session not found", <<>>, <<>>)
  ELSE IF status[s] = "processing"
  THEN Response("get", s, 200, "processing", NULL, <<>>, <<>>)
  ELSE IF status[s] = "failed"
  THEN Response("get", s, 200, "failed", error_message[s], <<>>, <<>>)
  ELSE Response("get", s, 200, "completed", NULL,
                OrderByConfidenceDesc(detected_books[s]), OrderByRankAsc(recommendations[s]))

\* phased version: 404, else the status and every row, whatever the status
GetSessionPhased(s) ==
  IF s \notin sessions
  THEN Response("get", s, 404, NULL, "Not found", <<>>, <<>>)
  ELSE Response("get", s, 200, status[s], NULL, detected_books[s], recommendations[s])

GetSessionResponse(s) == IF route = "phased" THEN GetSessionPhased(s) ELSE GetSessionFull(s)

\* faulty variant: the read also marks the session completed
GetSessionMarking(s) ==
  /\ resp' = GetSessionResponse(s)
  /\ status' = SetStatus(s, "completed")
  /\ UNCHANGED <<users, user_id, uploader, reading_history, late, aux, route, svc, nextId, sessions,
                 error_message, detected_books, recommendations, user_feedback, cache,
                 pc, local, visionOut, recOut, exitPath, p2, recCalls, providerOk>>

GetSession(s) ==
  /\ resp' = GetSessionResponse(s)
  /\ UNCHANGED <<users, user_id, uploader, reading_history, late, aux, route, svc, nextId, sessions,
                 status, error_message, detected_books, recommendations, user_feedback, cache,
                 pc, local, visionOut, recOut, exitPath, p2, recCalls, providerOk>>

\* ------------------------------------------------------ /api/user
\* the callers of a request: no valid token (NULL) or an account's token
Callers == Users \cup {NULL}

\* POST /api/user/reading-history: 401 without a user id; the insert of a new
\* book needs the users row (foreign key), else the catch answers 500
AddReadingHistory(u) ==
  /\ IF u = NULL
     THEN /\ resp' = Response("history", 0, 401, NULL, "Not authenticated", <<>>, <<>>)
          /\ reading_history' = reading_history
     ELSE IF u \notin users
     THEN /\ resp' = Response("history", 0, 500, NULL, "Failed to add to reading history",
                              <<>>, <<>>)
          /\ reading_history' = reading_history
     ELSE /\ reading_history[u] < MaxHistory
          /\ resp' = Response("history", 0, 200, NULL, NULL, <<>>, <<>>)
          /\ reading_history' = [reading_history EXCEPT ![u] = @ + 1]
  /\ UNCHANGED <<users, user_id, uploader, late, aux, route, svc, nextId, sessions, status,
                 error_message, detected_books, recommendations, user_feedback, cache, pc,
                 local, visionOut, recOut, exitPath, p2, recCalls, providerOk>>

\* DELETE FROM users WHERE id = u: reading_history cascades (ON DELETE
\* CASCADE); scan_sessions.user_id is ON DELETE SET NULL, so the sessions and
\* the rows under them stay
DeleteUserRow(u) ==
  /\ users' = users \ {u}
  /\ reading_history' = [reading_history EXCEPT ![u] = 0]
  /\ user_id' = [s \in Sessions |-> IF user_id[s] = u THEN NULL ELSE user_id[s]]
  /\ UNCHANGED <<sessions, status, error_message, detected_books, recommendations,
                 user_feedback>>

\* DELETE /api/user/data: 401 without a user id, else the DELETE and 200
DeleteUserData(u) ==
  /\ IF u = NULL
     THEN /\ resp' = Response("userdata", 0, 401, NULL, "Not authenticated", <<>>, <<>>)
          /\ UNCHANGED <<users, reading_history, user_id, sessions, status, error_message,
                         detected_books, recommendations, user_feedback>>
     ELSE /\ resp' = Response("userdata", 0, 200, NULL, NULL, <<>>, <<>>)
          /\ DeleteUserRow(u)
  /\ UNCHANGED <<uploader, late, aux, route, svc, nextId, cache, pc, local, visionOut, recOut,
                 exitPath, p2, recCalls, providerOk>>

\* -------------------------------------- GeminiService.retryOperation
\* what one call of the operation (model.generateContent) gives: a result,
\* or an error with its status (NoNum: none) and whether its message
\* includes 'overloaded'
OperationOutcomes ==
  { [ok |-> TRUE, status |-> NoNum, overloaded |-> FALSE] }
    \cup { [ok |-> FALSE, status |-> st, overloaded |-> FALSE] : st \in {429, 503, 500, 400, NoNum} }
    \cup { [ok |-> FALSE, status |-> NoNum, overloaded |-> TRUE] }

\* faulty variant: every error is retried
RetryAny(e) == TRUE

\* error.status === 503 || error.status === 429 ||
\* error.message?.includes('overloaded')
Retryable(e) == e.status = 503 \/ e.status = 429 \/ e.overloaded

\* detectBooksFromImage / generateRecommendationsBatch call
\* this.retryOperation(() => this.model.generateContent(...))
RetryStart ==
  /\ svc = "retry"
  /\ retry.at = "idle"
  /\ retry' = RetryCall("attempt", 0, InitialDelay, <<>>, <<>>)
  /\ UNCHANGED <<users, user_id, uploader, reading_history, resp, late, lookup, pool, slice,
                 viewer, poller, route, svc, nextId, sessions, status, error_message,
                 detected_books, recommendations, user_feedback, cache, pc, local, visionOut,
                 recOut, exitPath, p2, recCalls, providerOk>>

\* one turn of the for loop: await operation(), and the catch block
RetryAttempt ==
  /\ retry.at = "attempt"
  /\ retry.i < Retries
  /\ \E o \in OperationOutcomes :
       retry' =
         IF o.ok
         THEN [retry EXCEPT !.at = "returned", !.outs = Append(@, o)]
         ELSE IF retry.i = Retries - 1
         THEN [retry EXCEPT !.at = "thrown", !.outs = Append(@, o)]
         ELSE IF Retryable(o)
         THEN [retry EXCEPT !.at = "waiting", !.outs = Append(@, o),
                            !.waits = Append(@, retry.delay)]
         ELSE [retry EXCEPT !.at = "thrown", !.outs = Append(@, o)]
  /\ UNCHANGED <<users, user_id, uploader, reading_history, resp, late, lookup, pool, slice,
                 viewer, poller, route, svc, nextId, sessions, status, error_message,
                 detected_books, recommendations, user_feedback, cache, pc, local, visionOut,
                 recOut, exitPath, p2, recCalls, providerOk>>

\* the timer of the wait fires: delay *= 2; continue (i++)
RetryWake ==
  /\ retry.at = "waiting"
  /\ retry' = [retry EXCEPT !.at = "attempt", !.i = @ + 1, !.delay = @ * 2]
  /\ UNCHANGED <<users, user_id, uploader, reading_history, resp, late, lookup, pool, slice,
                 viewer, poller, route, svc, nextId, sessions, status, error_message,
                 detected_books, recommendations, user_feedback, cache, pc, local, visionOut,
                 recOut, exitPath, p2, recCalls, providerOk>>

\* ------------------------------------- calls of the GoogleBooksService
\* the books the service is asked about
LookupBooks ==
  { [title |-> "Emma", author |-> NULL,       isbn |-> NULL],
    [title |-> "Emma", author |-> "noauthor", isbn |-> NULL],
    [title |-> "Dune", author |-> "Herbert",  isbn |-> "9780441013593"] }

\* searchBook(title, author)
CallSearchBook ==
  /\ \E b \in { x \in LookupBooks : x.isbn = NULL }, o \in LookupOutcomes :
       /\ lookup' = ServiceCall("searchBook", <<b>>, <<o>>,
                                <<SearchBook(b.title, b.author, o, cache)>>)
       /\ cache' = CacheAfter(<<b>>, <<o>>, cache)
  /\ UNCHANGED <<users, user_id, uploader, reading_history, resp, late, retry, pool, slice,
                 viewer, poller, route, svc, nextId, sessions, status, error_message,
                 detected_books, recommendations, user_feedback, pc, local, visionOut,
                 recOut, exitPath, p2, recCalls, providerOk>>

\* getBookByISBN(isbn)
CallGetBookByISBN ==
  /\ \E b \in { x \in LookupBooks : x.isbn # NULL }, o \in LookupOutcomes :
       /\ lookup' = ServiceCall("getBookByISBN", <<b>>, <<o>>,
                                <<GetBookByISBN(b.isbn, o, cache)>>)
       /\ cache' = CacheAfter(<<b>>, <<o>>, cache)
  /\ UNCHANGED <<users, user_id, uploader, reading_history, resp, late, retry, pool, slice,
                 viewer, poller, route, svc, nextId, sessions, status, error_message,
                 detected_books, recommendations, user_feedback, pc, local, visionOut,
                 recOut, exitPath, p2, recCalls, providerOk>>

\* enrichBookData(books)
CallEnrichBookData ==
  /\ \E books \in SeqsUpTo(LookupBooks, MaxLookupBooks) :
       \E outs \in [1..Len(books) -> LookupOutcomes] :
          /\ lookup' = ServiceCall("enrichBookData", books, outs,
                                   EnrichBookData(books, outs, cache))
          /\ cache' = CacheAfter(books, outs, cache)
  /\ UNCHANGED <<users, user_id, uploader, reading_history, resp, late, retry, pool, slice,
                 viewer, poller, route, svc, nextId, sessions, status, error_message,
                 detected_books, recommendations, user_feedback, pc, local, visionOut,
                 recOut, exitPath, p2, recCalls, providerOk>>

\* NodeCache drops an entry when its TTL (stdTTL) has passed
CacheExpire ==
  /\ \E e \in cache : cache' = cache \ {e}
  /\ UNCHANGED <<users, user_id, uploader, reading_history, resp, late, retry, lookup, pool,
                 slice, viewer, poller, route, svc, nextId, sessions, status, error_message,
                 detected_books, recommendations, user_feedback, pc, local, visionOut,
                 recOut, exitPath, p2, recCalls, providerOk>>

\* ------------------------------------------------- utils/database.ts
\* Three versions of the Database class are in the repository:
\*   "eager"      : the constructor creates the pool and starts testConnection
\*   "lazy"       : the pool is created, and tested with pool.query, on first use
\*   "serverless" : the pool is created on first use, with no test
DbVersions == {"eager", "lazy", "serverless"}

\* new Database()
ConstructDatabase ==
  /\ pool.version = "none"
  /\ \E v \in DbVersions :
       pool' = [pool EXCEPT !.version = v,
                            !.test = IF v = "eager" THEN "connect" ELSE "none"]
  /\ UNCHANGED <<users, user_id, uploader, reading_history, resp, late, retry, lookup, slice,
                 viewer, poller, route, svc, nextId, sessions, status, error_message,
                 detected_books, recommendations, user_feedback, cache, pc, local, visionOut,
                 recOut, exitPath, p2, recCalls, providerOk>>

\* ensureInitialized of the lazy version: testConnection is pool.query('SELECT
\* NOW()') inside try / catch; no client is borrowed by the class
EnsureInitialized ==
  /\ pool.version = "lazy"
  /\ pool.test = "none"
  /\ pool' = [pool EXCEPT !.test = "done"]
  /\ UNCHANGED <<users, user_id, uploader, reading_history, resp, late, retry, lookup, slice,
                 viewer, poller, route, svc, nextId, sessions, status, error_message,
                 detected_books, recommendations, user_feedback, cache, pc, local, visionOut,
                 recOut, exitPath, p2, recCalls, providerOk>>

\* testConnection of the eager version: const client = await pool.connect()
TestConnect ==
  /\ pool.test = "connect"
  /\ \E ok \in BOOLEAN :
       pool' = IF ok THEN [pool EXCEPT !.test = "query", !.out = @ \cup {"test"}]
               ELSE [pool EXCEPT !.test = "done"]
  /\ UNCHANGED <<users, user_id, uploader, reading_history, resp, late, retry, lookup, slice,
                 viewer, poller, route, svc, nextId, sessions, status, error_message,
                 detected_books, recommendations, user_feedback, cache, pc, local, visionOut,
                 recOut, exitPath, p2, recCalls, providerOk>>

\* await client.query('SELECT NOW()'); client.release(): when the query
\* throws, the catch block logs and the release is not reached
TestQuery ==
  /\ pool.test = "query"
  /\ \E ok \in BOOLEAN :
       pool' = IF ok
               THEN [pool EXCEPT !.test = "done", !.out = @ \ {"test"},
                                 !.released["test"] = @ + 1]
               ELSE [pool EXCEPT !.test = "done"]
  /\ UNCHANGED <<users, user_id, uploader, reading_history, resp, late, retry, lookup, slice,
                 viewer, poller, route, svc, nextId, sessions, status, error_message,
                 detected_books, recommendations, user_feedback, cache, pc, local, visionOut,
                 recOut, exitPath, p2, recCalls, providerOk>>

\* transaction(callback): const client = await this.getClient(); a failed
\* connect throws before the try block
TxGetClient ==
  /\ pool.version # "none"
  /\ pool.version = "lazy" => pool.test = "done"
  /\ pool.tx = "none"
  /\ \E ok \in BOOLEAN :
       pool' = IF ok THEN [pool EXCEPT !.tx = "begin", !.out = @ \cup {"tx"}]
               ELSE [pool EXCEPT !.tx = "thrown"]
  /\ UNCHANGED <<users, user_id, uploader, reading_history, resp, late, retry, lookup, slice,
                 viewer, poller, route, svc, nextId, sessions, status, error_message,
                 detected_books, recommendations, user_feedback, cache, pc, local, visionOut,
                 recOut, exitPath, p2, recCalls, providerOk>>

\* the statements of the try block in turn: BEGIN, the callback, COMMIT; the
\* first that throws enters the catch block
TxStatement ==
  /\ pool.tx \in {"begin", "callback", "commit"}
  /\ \E ok \in BOOLEAN :
       pool' = IF ~ok THEN [pool EXCEPT !.tx = "rollback", !.txErr = TRUE]
               ELSE [pool EXCEPT !.tx = CASE pool.tx = "begin"    -> "callback"
                                          [] pool.tx = "callback" -> "commit"
                                          [] OTHER                -> "finally"]
  /\ UNCHANGED <<users, user_id, uploader, reading_history, resp, late, retry, lookup, slice,
                 viewer, poller, route, svc, nextId, sessions, status, error_message,
                 detected_books, recommendations, user_feedback, cache, pc, local, visionOut,
                 recOut, exitPath, p2, recCalls, providerOk>>

\* catch: await client.query('ROLLBACK'); throw error (a ROLLBACK that
\* throws leaves the catch block with its own error)
TxRollback ==
  /\ pool.tx = "rollback"
  /\ pool' = [pool EXCEPT !.tx = "finally"]
  /\ UNCHANGED <<users, user_id, uploader, reading_history, resp, late, retry, lookup, slice,
                 viewer, poller, route, svc, nextId, sessions, status, error_message,
                 detected_books, recommendations, user_feedback, cache, pc, local, visionOut,
                 recOut, exitPath, p2, recCalls, providerOk>>

\* finally: client.release(), then the result or the error
TxFinally ==
  /\ pool.tx = "finally"
  /\ pool' = [pool EXCEPT !.tx = IF pool.txErr THEN "thrown" ELSE "returned",
                          !.out = @ \ {"tx"},
                          !.released["tx"] = @ + 1]
  /\ UNCHANGED <<users, user_id, uploader, reading_history, resp, late, retry, lookup, slice,
                 viewer, poller, route, svc, nextId, sessions, status, error_message,
                 detected_books, recommendations, user_feedback, cache, pc, local, visionOut,
                 recOut, exitPath, p2, recCalls, providerOk>>

\* ------------------------- the books sent to recommendation generation
\* a vision result of n candidates; the later a candidate, the higher its
\* confidence
DetectionResult(n) ==
  [i \in 1..n |-> [title |-> "book " \o ToString(i), author |-> NULL,
                    confidence |-> 40 + 10 * i]]

\* processImage: booksToRecommend = geminiResult.books.slice(0, 5)
SliceInline ==
  /\ route # "phased"
  /\ slice.via = "none"
  /\ \E n \in 0..MaxDetected :
       slice' = Slice("inline", DetectionResult(n), Take(DetectionResult(n), RecCap))
  /\ UNCHANGED <<users, user_id, uploader, reading_history, resp, late, retry, lookup, pool,
                 viewer, poller, route, svc, nextId, sessions, status, error_message,
                 detected_books, recommendations, user_feedback, cache, pc, local, visionOut,
                 recOut, exitPath, p2, recCalls, providerOk>>

\* GET .../recommendations once the POST has inserted the n candidates:
\* booksResult.rows.slice(0, 5) of the SELECT without ORDER BY
SlicePhased ==
  /\ route = "phased"
  /\ slice.via = "none"
  /\ \E n \in 1..MaxDetected :
       \E rows \in SelectUnordered(DetectionResult(n)) :
          slice' = Slice("phased", DetectionResult(n), Take(rows, RecCap))
  /\ UNCHANGED <<users, user_id, uploader, reading_history, resp, late, retry, lookup, pool,
                 viewer, poller, route, svc, nextId, sessions, status, error_message,
                 detected_books, recommendations, user_feedback, cache, pc, local, visionOut,
                 recOut, exitPath, p2, recCalls, providerOk>>

\* ------------------------------- Results.tsx (non-phased): pollResults
\* what scanApi.getScanResult gives: the status of the response body, or a
\* rejected request (network error, 4xx, 5xx)
PollAnswers == {"completed", "failed", "processing", "completed_detection", "error"}

\* useEffect(() => { pollResults() }, [sessionId]): attempts = 0 and the
\* first poll() sends its request
PollStart ==
  /\ poller.at = "idle"
  /\ poller' = [poller EXCEPT !.at = "request", !.requests = 1]
  /\ UNCHANGED <<users, user_id, uploader, reading_history, resp, late, retry, lookup, pool,
                 slice, viewer, route, svc, nextId, sessions, status, error_message,
                 detected_books, recommendations, user_feedback, cache, pc, local, visionOut,
                 recOut, exitPath, p2, recCalls, providerOk>>

\* faulty variant: the loop re-polls without counting
PollAnswerUncounted ==
  /\ poller.at = "request"
  /\ \E a \in PollAnswers :
       poller' =
         CASE a = "completed" ->
                [poller EXCEPT !.at = "stopped", !.status = "completed", !.last = a]
           [] a = "failed" ->
                [poller EXCEPT !.at = "stopped", !.status = "failed",
                               !.error = "Processing failed", !.last = a]
           [] a = "error" ->
                [poller EXCEPT !.at = "stopped", !.status = "failed",
                               !.error = "Failed to get results", !.last = a]
           [] OTHER ->
                [poller EXCEPT !.at = "scheduled", !.last = a]
  /\ UNCHANGED <<users, user_id, uploader, reading_history, resp, late, retry, lookup, pool,
                 slice, viewer, route, svc, nextId, sessions, status, error_message,
                 detected_books, recommendations, user_feedback, cache, pc, local, visionOut,
                 recOut, exitPath, p2, recCalls, providerOk>>

\* the request of poll() settles: completed and failed end the loop, as does
\* the catch block; any other status re-polls in 1000 ms while attempts <
\* maxAttempts, else the loop ends with the timeout message
PollAnswer ==
  /\ poller.at = "request"
  /\ \E a \in PollAnswers :
       poller' =
         CASE a = "completed" ->
                [poller EXCEPT !.at = "stopped", !.status = "completed", !.last = a]
           [] a = "failed" ->
                [poller EXCEPT !.at = "stopped", !.status = "failed",
                               !.error = "Processing failed", !.last = a]
           [] a = "error" ->
                [poller EXCEPT !.at = "stopped", !.status = "failed",
                               !.error = "Failed to get results", !.last = a]
           [] OTHER ->
                IF poller.attempts < MaxAttempts
                THEN [poller EXCEPT !.at = "scheduled", !.attempts = @ + 1, !.last = a]
                ELSE [poller EXCEPT !.at = "stopped", !.status = "failed",
                                    !.error = "Processing timeout - please try again",
                                    !.last = a]
  /\ UNCHANGED <<users, user_id, uploader, reading_history, resp, late, retry, lookup, pool,
                 slice, viewer, route, svc, nextId, sessions, status, error_message,
                 detected_books, recommendations, user_feedback, cache, pc, local, visionOut,
                 recOut, exitPath, p2, recCalls, providerOk>>

\* setTimeout(poll, 1000) fires: poll() sends the next request
PollTimer ==
  /\ poller.at = "scheduled"
  /\ poller' = [poller EXCEPT !.at = "request", !.requests = @ + 1]
  /\ UNCHANGED <<users, user_id, uploader, reading_history, resp, late, retry, lookup, pool,
                 slice, viewer, route, svc, nextId, sessions, status, error_message,
                 detected_books, recommendations, user_feedback, cache, pc, local, visionOut,
                 recOut, exitPath, p2, recCalls, providerOk>>

\* ------------------------------------------ Results.tsx (phased version)
\* setRecStatus(v): a changed state re-renders; fetchRecommendations and
\* pollResults get a new identity and the effect on [sessionId, pollResults]
\* is due again
SetRecStatus(w, v) ==
  [w EXCEPT !.recStatus = v, !.due = IF v = w.recStatus THEN @ ELSE @ + 1]

\* the component mounts: the effect is due, once or more
ViewerMount ==
  /\ viewer.due = 0 /\ viewer.polls = <<>>
  /\ \E k \in 1..MaxEffectRuns : viewer' = [viewer EXCEPT !.due = k]
  /\ UNCHANGED <<users, user_id, uploader, reading_history, resp, late, retry, lookup, pool,
                 slice, poller, route, svc, nextId, sessions, status, error_message,
                 detected_books, recommendations, user_feedback, cache, pc, local, visionOut,
                 recOut, exitPath, p2, recCalls, providerOk>>

\* useEffect: pollResults() starts a polling loop; its fetchRecommendations
\* is the one of the current render
RunEffect ==
  /\ viewer.due > 0
  /\ Len(viewer.polls) < MaxPolls
  /\ viewer' = [viewer EXCEPT !.due = @ - 1,
                              !.polls = Append(@, [closure |-> viewer.recStatus,
                                                   at |-> "request"])]
  /\ UNCHANGED <<users, user_id, uploader, reading_history, resp, late, retry, lookup, pool,
                 slice, poller, route, svc, nextId, sessions, status, error_message,
                 detected_books, recommendations, user_feedback, cache, pc, local, visionOut,
                 recOut, exitPath, p2, recCalls, providerOk>>

\* the POST handler ends: completed_detection, or failed
ServerDetects ==
  /\ viewer.srv = "processing"
  /\ Len(viewer.polls) > 0
  /\ \E st \in {"completed_detection", "failed"} : viewer' = [viewer EXCEPT !.srv = st]
  /\ UNCHANGED <<users, user_id, uploader, reading_history, resp, late, retry, lookup, pool,
                 slice, poller, route, svc, nextId, sessions, status, error_message,
                 detected_books, recommendations, user_feedback, cache, pc, local, visionOut,
                 recOut, exitPath, p2, recCalls, providerOk>>

\* fetchRecommendations as captured by a loop: if (recStatus !== 'none')
\* return; setRecStatus('loading'); axios.get(.../recommendations)
FetchRecommendations(w, closure) ==
  IF closure # "none" THEN w
  ELSE [SetRecStatus(w, "loading") EXCEPT !.requests = @ + 1, !.inflight = @ + 1]

\* a GET /scan/:id of loop p is answered: completed_detection (with no
\* recommendations) calls fetchRecommendations, completed sets recStatus,
\* failed and a request error end the loop, processing polls again in 1 s
PollResult(p) ==
  /\ viewer.polls[p].at = "request"
  /\ \E answered \in BOOLEAN :
       LET done == [viewer EXCEPT !.polls[p].at = "done"] IN
         viewer' =
           IF ~answered THEN done
           ELSE CASE viewer.srv = "completed_detection" ->
                       FetchRecommendations(done, viewer.polls[p].closure)
                  [] viewer.srv = "completed" -> SetRecStatus(done, "completed")
                  [] viewer.srv = "failed" -> done
                  [] OTHER -> viewer
  /\ UNCHANGED <<users, user_id, uploader, reading_history, resp, late, retry, lookup, pool,
                 slice, poller, route, svc, nextId, sessions, status, error_message,
                 detected_books, recommendations, user_feedback, cache, pc, local, visionOut,
                 recOut, exitPath, p2, recCalls, providerOk>>

\* a GET .../recommendations request ends: the server has saved the
\* recommendations and marked the session completed, or it answered an error
RecommendationsResult ==
  /\ viewer.inflight > 0
  /\ \E ok \in BOOLEAN :
       viewer' =
         IF ok
         THEN [SetRecStatus(viewer, "completed") EXCEPT !.inflight = @ - 1,
                                                        !.srv = "completed"]
         ELSE [SetRecStatus(viewer, "failed") EXCEPT !.inflight = @ - 1]
  /\ UNCHANGED <<users, user_id, uploader, reading_history, resp, late, retry, lookup, pool,
                 slice, poller, route, svc, nextId, sessions, status, error_message,
                 detected_books, recommendations, user_feedback, cache, pc, local, visionOut,
                 recOut, exitPath, p2, recCalls, providerOk>>

\* ------------------------------------------------------ /api/history
\* the senders of a DELETE /api/history/:id: no valid token, the account, or
\* the token of another account
Requesters == Callers \cup {"u2"}

\* faulty variant: the delete leaves the rows under the session
DeleteSessionRowOnly(s) ==
  /\ sessions' = sessions \ {s}
  /\ status' = [status EXCEPT ![s] = "none"]
  /\ error_message' = [error_message EXCEPT ![s] = NULL]
  /\ user_id' = [user_id EXCEPT ![s] = NULL]
  /\ UNCHANGED <<detected_books, recommendations, user_feedback>>

\* DELETE FROM scan_sessions WHERE id = s: the detected_books,
\* recommendations and user_feedback rows of s go with it (ON DELETE CASCADE)
DeleteSessionRow(s) ==
  /\ sessions' = sessions \ {s}
  /\ status' = [status EXCEPT ![s] = "none"]
  /\ error_message' = [error_message EXCEPT ![s] = NULL]
  /\ user_id' = [user_id EXCEPT ![s] = NULL]
  /\ detected_books' = [detected_books EXCEPT ![s] = <<>>]
  /\ recommendations' = [recommendations EXCEPT ![s] = <<>>]
  /\ user_feedback' = [user_feedback EXCEPT ![s] = 0]

\* faulty variant: the DELETE has no AND user_id = $2
DeleteSessionAnyOwner(u, s) ==
  /\ IF u = NULL
     THEN /\ resp' = Response("delete", s, 401, NULL, "Not authenticated", <<>>, <<>>)
          /\ UNCHANGED <<sessions, status, error_message, user_id, detected_books,
                         recommendations, user_feedback>>
     ELSE IF s \in sessions
     THEN /\ resp' = Response("delete", s, 200, NULL, NULL, <<>>, <<>>)
          /\ DeleteSessionRow(s)
     ELSE /\ resp' = Response("delete", s, 404, NULL, "Session not found", <<>>, <<>>)
          /\ UNCHANGED <<sessions, status, error_message, user_id, detected_books,
                         recommendations, user_feedback>>
  /\ UNCHANGED <<users, uploader, reading_history, late, aux, route, svc, nextId, cache, pc,
                 local, visionOut, recOut, exitPath, p2, recCalls, providerOk>>

\* DELETE /api/history/:sessionId: 401 without a user id; DELETE ... WHERE
\* id = s AND user_id = u RETURNING id, 404 when it returned no row
DeleteSession(u, s) ==
  /\ IF u = NULL
     THEN /\ resp' = Response("delete", s, 401, NULL, "Not authenticated", <<>>, <<>>)
          /\ UNCHANGED <<sessions, status, error_message, user_id, detected_books,
                         recommendations, user_feedback>>
     ELSE IF s \in sessions /\ user_id[s] = u
     THEN /\ resp' = Response("delete", s, 200, NULL, NULL, <<>>, <<>>)
          /\ DeleteSessionRow(s)
     ELSE /\ resp' = Response("delete", s, 404, NULL, "Session not found", <<>>, <<>>)
          /\ UNCHANGED <<sessions, status, error_message, user_id, detected_books,
                         recommendations, user_feedback>>
  /\ UNCHANGED <<users, uploader, reading_history, late, aux, route, svc, nextId, cache, pc,
                 local, visionOut, recOut, exitPath, p2, recCalls, providerOk>>

\* cleanup_expired_sessions(): DELETE FROM scan_sessions WHERE expires_at <
\* CURRENT_TIMESTAMP, for the session when its 24 hours have passed
CleanupExpiredSessions ==
  /\ \E s \in sessions : DeleteSessionRow(s)
  /\ UNCHANGED <<users, uploader, reading_history, resp, late, aux, route, svc, nextId, cache,
                 pc, local, visionOut, recOut, exitPath, p2, recCalls, providerOk>>

\* ---------------------------------------------------- specification
Pipeline(s) ==
  \/ DetectBooks(s)
  \/ FailNoBooks(s)
  \/ CatchFailed(s)
  \/ EnrichBooks(s)
  \/ InsertDetectedBook(s)
  \/ MarkDetection(s)
  \/ GenerateRecs(s)
  \/ EnrichAndRecommend(s)
  \/ UpdateBookMetadata(s)
  \/ EnrichRecs(s)
  \/ InsertRecommendation(s)
  \/ MarkCompleted(s)

Next ==
  \/ StartScan(NULL)
  \/ \E s \in Sessions : Pipeline(s)
  \/ \E s \in Sessions : RecsSelectBooks(s, MaxRecCalls)
  \/ \E h \in BagToSet(p2) : RecsGenerate(h)
  \/ \E h \in BagToSet(p2) : RecsInsert(h)
  \/ \E h \in BagToSet(p2) : RecsMarkCompleted(h)
  \/ \E s \in Sessions : SubmitFeedback(s)
  \/ \E s \in Sessions : FeedbackNoRoute(s)

Spec == Init /\ [][Next]_vars

\* the same program when GET .../recommendations is requested again
NextRepeat ==
  \/ Next
  \/ \E s \in Sessions : RecsSelectBooks(s, MaxRepeatCalls)

SpecRepeat == Init /\ [][NextRepeat]_vars

\* the same program with its clients polling and sending refused uploads
NextApi ==
  \/ Next
  \/ \E s \in Sessions : GetSession(s)
  \/ RejectUpload

SpecApi == Init /\ [][NextApi]_vars

\* the same program with signed-in callers and the /api/user requests
NextUser ==
  \/ Next
  \/ \E u \in Users : StartScan(u)
  \/ \E u \in Callers : AddReadingHistory(u)
  \/ \E u \in Callers : DeleteUserData(u)

SpecUser == Init /\ [][NextUser]_vars

\* the same program with signed-in uploads, DELETE /api/history/:id and the
\* expiry cleanup
NextHistory ==
  \/ Next
  \/ \E u \in Users : StartScan(u)
  \/ \E u \in Requesters, s \in Sessions : DeleteSession(u, s)
  \/ CleanupExpiredSessions

SpecHistory == Init /\ [][NextHistory]_vars

\* the DELETE of the history routes against the sessions the scan pipeline
\* and the feedback route fill
NextDelete ==
  \/ \E u \in Callers : StartScan(u)
  \/ \E s \in Sessions : Pipeline(s)
  \/ \E s \in Sessions : SubmitFeedback(s)
  \/ \E u \in Requesters, s \in Sessions : DeleteSession(u, s)

SpecDelete == Init /\ [][NextDelete]_vars

\* one retryOperation call of the retrying GeminiService
NextRetry ==
  \/ RetryStart
  \/ RetryAttempt
  \/ RetryWake

SpecRetry == Init /\ [][NextRetry]_vars

\* the phased Results component showing one session
NextViewer ==
  \/ ViewerMount
  \/ RunEffect
  \/ ServerDetects
  \/ \E p \in DOMAIN viewer.polls : PollResult(p)
  \/ RecommendationsResult

SpecViewer == Init /\ [][NextViewer]_vars

\* the polling loop of the non-phased Results component; every request
\* settles and every timer fires
NextPoll ==
  \/ PollStart
  \/ PollAnswer
  \/ PollTimer

SpecPoll == Init /\ [][NextPoll]_vars /\ WF_vars(NextPoll)

\* the choice of the books for one recommendation call, on vision results of
\* up to MaxDetected candidates
NextSlice ==
  \/ SliceInline
  \/ SlicePhased

SpecSlice == Init /\ [][NextSlice]_vars

\* the Database object: its startup test and one transaction() call
NextPool ==
  \/ ConstructDatabase
  \/ EnsureInitialized
  \/ TestConnect
  \/ TestQuery
  \/ TxGetClient
  \/ TxStatement
  \/ TxRollback
  \/ TxFinally

SpecPool == Init /\ [][NextPool]_vars

\* the GoogleBooksService called on its own, its cache filling and expiring
NextLookup ==
  \/ CallSearchBook
  \/ CallGetBookByISBN
  \/ CallEnrichBookData
  \/ CacheExpire

SpecLookup == Init /\ [][NextLookup]_vars

TypeOK ==
  /\ route \in Routes /\ svc \in Services
  /\ nextId \in 0..Cardinality(Sessions)
  /\ sessions \subseteq Sessions
  /\ \A s \in Sessions :
       status[s] \in {"none", "processing", "completed_detection", "completed", "failed"}


\* ---------------------------------------------------------- properties
InUnit(x) == x >= 0 /\ x <= ScoreMax
Stored(msg) == msg \notin {NULL, ""}
Finished(s) == s \in sessions /\ pc[s] = "done"

StatusOrder(st) == CASE st = "processing"          -> 0
                     [] st = "completed_detection" -> 1
                     [] OTHER                      -> 2

\* C1: once a session's status has left processing no step sets it back to
\* processing, and no step moves the status backward in the order
\* processing, completed_detection, completed.
StatusNeverRegresses ==
  [][\A s \in Sessions :
       /\ status[s] \notin {"none", "processing"} => status'[s] # "processing"
       /\ (/\ status[s] \in {"processing", "completed_detection", "completed"}
           /\ status'[s] \in {"processing", "completed_detection", "completed"})
          => StatusOrder(status'[s]) >= StatusOrder(status[s])]_vars

\* C2: completed and failed are terminal: no step changes a status that is
\* completed or failed to a different value.
TerminalStatusKept ==
  [][\A s \in Sessions :
       status[s] \in {"completed", "failed"} => status'[s] = status[s]]_vars

\* In every reachable state a session with a recommendations row has a
\* detected_books row.
RecsImplyBooks ==
  \A s \in Sessions : Len(recommendations[s]) > 0 => Len(detected_books[s]) > 0

\* The POST pipeline that writes recommendations itself (async, budget)
\* inserts no detected_books row once a recommendations row exists.
BooksBeforeRecs ==
  \A s \in Sessions :
     (route # "phased" /\ Len(recommendations[s]) > 0)
       => Len(detected_books'[s]) = Len(detected_books[s])

RanksDense ==
  \A s \in Sessions :
     LET r == recommendations[s] IN
       /\ Len(r) <= RecCap
       /\ \A i \in 1..Len(r) : \E j \in 1..Len(r) : r[j].rank = i
       /\ \A i, j \in 1..Len(r) : r[i].rank = r[j].rank => i = j

\* C5: when the vision call returned n >= 1 candidates, the detection phase
\* has persisted exactly n detected_books rows, one per candidate, each with
\* a confidence in [0,1].
OneRowPerCandidate ==
  \A s \in Sessions :
     (/\ Finished(s)
      /\ visionOut[s].kind = "books"
      /\ Len(visionOut[s].books) >= 1)
     => /\ Len(detected_books[s]) = Len(visionOut[s].books)
        /\ \A i \in 1..Len(detected_books[s]) :
              /\ detected_books[s][i].title = visionOut[s].books[i].title
              /\ InUnit(detected_books[s][i].confidence_score)

EmptyResult(s) ==
  \/ visionOut[s].kind = "nokey"
  \/ visionOut[s].kind = "books" /\ Len(visionOut[s].books) = 0

\* C6: when the vision call returns an empty or missing book list, the
\* session has no detected_books and no recommendations row, and once the
\* handler has finished it is failed with a stored error message.
EmptyResultFails ==
  \A s \in Sessions :
     EmptyResult(s) =>
       /\ Len(detected_books[s]) = 0
       /\ Len(recommendations[s]) = 0
       /\ Finished(s) => status[s] = "failed" /\ Stored(error_message[s])

\* the handler has taken the empty-result branch on an empty list
EmptyResultFailsWitness ==
  \E s \in Sessions :
     /\ Finished(s)
     /\ visionOut[s].kind = "books" /\ visionOut[s].books = <<>>
     /\ exitPath[s] = "nobooks"
     /\ status[s] = "failed"
     /\ error_message[s] = NoBooksMessage

VisionThrew(s) ==
  visionOut[s].kind # "none" /\ DetectBooksFromImage(svc, visionOut[s]).threw

\* a vision call that threw leaves a failed session with a message and no
\* row; a handler that left through a detection error has stored a message
DetectionErrorState ==
  \A s \in Sessions :
     /\ (Finished(s) /\ VisionThrew(s))
          => /\ status[s] = "failed"
             /\ Stored(error_message[s])
             /\ Len(detected_books[s]) = 0
     /\ (Finished(s) /\ exitPath[s] = "error in detection")
          => /\ Stored(error_message[s])
             /\ route # "phased" => status[s] = "failed"

\* the handler ends a detection error by writing failed and a message
DetectionErrorStep ==
  \A s \in Sessions :
     (pc[s] = "catch" /\ local[s].from = "detection" /\ pc'[s] # "catch")
       => /\ pc'[s] = "done"
          /\ status'[s] = "failed"
          /\ Stored(error_message'[s])

\* C7: every error inside the detection phase ends the handler with the
\* session failed and a non-empty stored error message; when the vision call
\* throws, the session ends failed with zero detected_books rows.
DetectionErrorsFail == []DetectionErrorState /\ [][DetectionErrorStep]_vars

\* the vision call threw a network error and the handler has finished
DetectionErrorsFailWitness ==
  \E s \in Sessions :
     /\ Finished(s)
     /\ visionOut[s].kind = "throw"
     /\ exitPath[s] = "error in detection"
     /\ status[s] = "failed"
     /\ Stored(error_message[s])

\* C8: a session whose handling call has run to completion is not in
\* processing: every exit path, an error in enrichment, recommendation
\* generation or persistence included, has written a final status.
NeverStuckInProcessing ==
  \A s \in Sessions : Finished(s) => status[s] \notin {"none", "processing"}

\* the handler has finished through an error of the recommendation step
NeverStuckInProcessingWitness ==
  \E s \in Sessions :
     /\ Finished(s)
     /\ exitPath[s] = "error in recommendation"
     /\ Len(detected_books[s]) > 0
     /\ status[s] = "failed"

\* C9: when the recommendation model call fails (it throws or its output
\* cannot be parsed), the session ends completed with zero recommendations
\* rows and its detected books intact.
FailedRecsGiveNone ==
  \A s \in Sessions :
     (Finished(s) /\ recOut[s].kind \in {"throw", "nojson"})
       => /\ status[s] = "completed"
          /\ Len(recommendations[s]) = 0
          /\ Len(detected_books[s]) = Len(visionOut[s].books)

ValidCandidates(s) ==
  /\ visionOut[s].kind = "books"
  /\ Len(visionOut[s].books) >= 1
  /\ \A i \in 1..Len(visionOut[s].books) :
        /\ visionOut[s].books[i].title # NULL
        /\ InUnit(visionOut[s].books[i].confidence)

\* C10: while the metadata provider has answered no lookup, every
\* detected_books and recommendations row has empty metadata, and a handler
\* that finished on valid candidates without a recommendation error has
\* persisted all of them and completed the session.
MetadataFailuresTolerated ==
  ~providerOk =>
    \A s \in Sessions :
       /\ \A i \in 1..Len(detected_books[s]) : detected_books[s][i].metadata = EmptyMeta
       /\ \A i \in 1..Len(recommendations[s]) : recommendations[s][i].metadata = EmptyMeta
       /\ (Finished(s) /\ ValidCandidates(s) /\ exitPath[s] # "error in recommendation")
            => /\ Len(detected_books[s]) = Len(visionOut[s].books)
               /\ status[s] \in (IF route = "phased"
                                 THEN {"completed_detection", "completed"}
                                 ELSE {"completed"})

\* every lookup of a finished pipeline failed, and it completed with its rows
MetadataFailuresToleratedWitness ==
  \E s \in Sessions :
     /\ route = "async"
     /\ ~providerOk
     /\ Finished(s)
     /\ status[s] = "completed"
     /\ Len(detected_books[s]) = Len(visionOut[s].books)
     /\ Len(detected_books[s]) > 1
     /\ Len(recommendations[s]) >= 1


AllTitled(s) ==
  \A i \in 1..Len(visionOut[s].books) : visionOut[s].books[i].title # NULL

\* C11: a confidence or score outside [0,1] is clamped to the nearest bound
\* before it is stored: every titled candidate of a finished session is
\* stored with its clamped confidence, and every item of the recommendation
\* result the pipeline received is stored with its clamped score.
ClampedNotRejected ==
  \A s \in Sessions :
     /\ (Finished(s) /\ visionOut[s].kind = "books" /\ AllTitled(s))
          => /\ Len(detected_books[s]) = Len(visionOut[s].books)
             /\ \A i \in 1..Len(detected_books[s]) :
                   detected_books[s][i].confidence_score
                     = Clamp(visionOut[s].books[i].confidence)
     /\ (Finished(s) /\ recOut[s].kind = "recs")
          => /\ status[s] = "completed"
             /\ Len(recommendations[s]) = Len(recOut[s].recs)
             /\ \A i \in 1..Len(recommendations[s]) :
                   recommendations[s][i].recommendation_score
                     = Clamp(recOut[s].recs[i].score)

Titled(b) == b.title # NULL

\* C12: a detected item without a title is dropped before persistence: the
\* rows of a finished session are its titled candidates, in order, with the
\* author or a null author, and the session has not failed in detection.
UntitledDropped ==
  \A s \in Sessions :
     (/\ Finished(s)
      /\ visionOut[s].kind = "books"
      /\ \E i \in 1..Len(visionOut[s].books) : Titled(visionOut[s].books[i])
      /\ \A i \in 1..Len(visionOut[s].books) : InUnit(visionOut[s].books[i].confidence))
     => LET kept == SelectSeq(visionOut[s].books, Titled) IN
          /\ exitPath[s] # "error in detection"
          /\ Len(detected_books[s]) = Len(kept)
          /\ \A i \in 1..Len(detected_books[s]) :
                /\ detected_books[s][i].title = kept[i].title
                /\ detected_books[s][i].author = kept[i].author

Terminal(s) == s \in sessions /\ status[s] \in {"completed", "failed"}

\* C13: once a session is completed or failed, what GET /api/scan/:id
\* returns as detected books and as recommendations no longer changes.
TerminalReadsRepeat ==
  [][\A s \in Sessions :
       Terminal(s) =>
         /\ GetSessionResponse(s)'.detectedBooks = GetSessionResponse(s).detectedBooks
         /\ GetSessionResponse(s)'.recommendations = GetSessionResponse(s).recommendations]_vars

\* C14: GET /api/scan/:id is a pure read: the step that answers it, 404 for
\* an unknown id included, leaves the session's status, error message,
\* detected books, recommendations and feedback rows as they were.
GetSessionPureRead ==
  [][(resp' # resp /\ resp'.op = "get")
       => /\ UNCHANGED <<sessions, status, error_message, detected_books, recommendations,
                         user_feedback>>
          /\ resp'.sid \notin sessions => resp'.code = 404]_vars

\* a read of a completed session has returned its rows
GetSessionPureReadWitness ==
  /\ resp.op = "get"
  /\ resp.code = 200
  /\ resp.status = "completed"
  /\ Len(resp.detectedBooks) > 0
  /\ Len(resp.recommendations) > 0

\* C15: a response of GET /api/scan/:id with status processing carries no
\* detected books and no recommendations.
ProcessingShowsNoRows ==
  (resp.op = "get" /\ resp.status = "processing")
    => resp.detectedBooks = <<>> /\ resp.recommendations = <<>>

\* C16: for a session whose status is failed, GET /api/scan/:id returns
\* status failed together with the stored error message.
FailedReadCarriesMessage ==
  [][\A s \in Sessions :
       (resp' # resp /\ resp'.op = "get" /\ resp'.sid = s /\ s \in sessions
          /\ status[s] = "failed")
       => resp'.status = "failed" /\ resp'.error = error_message[s]]_vars

\* the step of a POST .../feedback request for session s
FeedbackStep(s) ==
  \/ user_feedback'[s] # user_feedback[s]
  \/ resp' # resp /\ resp'.op = "feedback" /\ resp'.sid = s

UnknownSessionFeedback404 ==
  [][\A s \in Sessions :
       (resp' # resp /\ resp'.op = "feedback" /\ resp'.sid = s /\ s \notin sessions)
       => resp'.code = 404 /\ user_feedback' = user_feedback]_vars

\* C19: an upload with no image, a non-image file or a file over the size
\* limit is answered 400 or 413, and no scan_sessions row is created for it.
RejectedUploadIs4xx ==
  [][(resp' # resp /\ resp'.op = "scan"
        /\ resp'.error \in {RejectedUploadError(f) : f \in UploadFaults})
       => resp'.code \in {400, 413} /\ sessions' = sessions]_vars

\* C20: once DELETE /api/user/data has deleted a user row, no reading
\* history of that user and no scan session that user created, with its
\* detected books, recommendations and feedback, exists any more.
UserDataGone ==
  \A u \in Users :
     u \notin users =>
       /\ reading_history[u] = 0
       /\ \A s \in Sessions :
             uploader[s] = u =>
               /\ s \notin sessions
               /\ Len(detected_books[s]) = 0
               /\ Len(recommendations[s]) = 0
               /\ user_feedback[s] = 0

\* every row of the database a request could change
Rows == <<users, reading_history, sessions, status, error_message, user_id, detected_books,
          recommendations, user_feedback>>

\* C21: DELETE /api/history/:id sent by the authenticated owner of an
\* existing session answers 200 and removes the session with its detected
\* books, recommendations and feedback; sent without authentication it
\* answers 401, and for an unknown session or one the sender does not own
\* 404, and in both cases no row changes.
OnlyOwnerDeletes ==
  [][\A u \in Requesters, s \in Sessions :
       DeleteSession(u, s) =>
         /\ u = NULL => resp'.code = 401 /\ UNCHANGED Rows
         /\ (u # NULL /\ (s \notin sessions \/ user_id[s] # u))
              => resp'.code = 404 /\ UNCHANGED Rows
         /\ (u # NULL /\ s \in sessions /\ user_id[s] = u)
              => /\ resp'.code = 200
                 /\ s \notin sessions'
                 /\ Len(detected_books'[s]) = 0
                 /\ Len(recommendations'[s]) = 0
                 /\ user_feedback'[s] = 0]_vars

\* the owner has deleted a session whose pipeline had stored all its rows
OnlyOwnerDeletesWitness ==
  \E s \in Sessions :
     /\ resp.op = "delete" /\ resp.sid = s /\ resp.code = 200
     /\ uploader[s] = "u1"
     /\ s \notin sessions
     /\ exitPath[s] = "ok"
     /\ visionOut[s].kind = "books"
     /\ Len(detected_books[s]) = 0

\* C25: every detected_books, recommendations and user_feedback row belongs
\* to a scan_sessions row that exists, also when the session is deleted by
\* its owner or by the expiry cleanup while its pipeline is still inserting:
\* an insert for a deleted session creates no row.
RowsReferenceSessions ==
  \A s \in Sessions :
     s \notin sessions =>
       /\ Len(detected_books[s]) = 0
       /\ Len(recommendations[s]) = 0
       /\ user_feedback[s] = 0

\* the session was deleted under its save loop and the next insert was
\* rejected
RowsReferenceSessionsWitness ==
  \E s \in Sessions :
     /\ s \notin sessions
     /\ s <= nextId
     /\ pc[s] = "catch"
     /\ local[s].err = "violates foreign key constraint"
     /\ Len(detected_books[s]) = 0

\* C27: in the budget version an enrichment that has not returned within
\* the 3 s window is not waited for: no detected_books row carries metadata
\* of book lookups that outlasted the window, and no recommendations row
\* carries metadata of recommendation lookups that did.
WindowBoundsEnrichment ==
  \A s \in Sessions :
     /\ late[s].books =>
           \A i \in 1..Len(detected_books[s]) : detected_books[s][i].metadata = EmptyMeta
     /\ late[s].recs =>
           \A i \in 1..Len(recommendations[s]) : recommendations[s][i].metadata = EmptyMeta

\* the wait before attempt k + 1: 1000 ms doubled k - 1 times
RECURSIVE Backoff(_)
Backoff(k) == IF k <= 1 THEN 1000 ELSE 2 * Backoff(k - 1)

Transient(e) == ~e.ok /\ (e.status \in {429, 503} \/ e.overloaded)

\* C22: retryOperation invokes the operation at most 3 times; it returns at
\* the first successful attempt; it waits and retries only after a 429, a 503
\* or an 'overloaded' failure, waiting 1000 ms and then 2000 ms; any other
\* failure, and the failure of the third attempt, is rethrown with no wait
\* and no further attempt.
RetryAtMostThrice ==
  LET n == Len(retry.outs) IN
    /\ n <= 3
    /\ Len(retry.waits) <= 2
    /\ \A k \in 1..Len(retry.waits) : retry.waits[k] = Backoff(k)
    /\ \A k \in 1..(n - 1) : Transient(retry.outs[k])
    /\ retry.at = "returned" => retry.outs[n].ok /\ Len(retry.waits) = n - 1
    /\ retry.at = "thrown"
         => /\ ~retry.outs[n].ok
            /\ n = 3 \/ ~Transient(retry.outs[n])
            /\ Len(retry.waits) = n - 1
    /\ retry.at = "waiting"
         => Transient(retry.outs[n]) /\ n < 3 /\ Len(retry.waits) = n
    /\ retry.at = "attempt" => n < 3 /\ Len(retry.waits) = n

\* the third attempt succeeded after a 429 and a 503, with both waits made
RetryAtMostThriceWitness ==
  /\ retry.at = "returned"
  /\ Len(retry.outs) = 3
  /\ retry.outs[1].status = 429
  /\ retry.outs[2].status = 503
  /\ retry.waits = <<1000, 2000>>

\* C23: the cache does not change what a lookup returns: whatever the cache
\* holds from earlier lookups, searchBook and getBookByISBN return the
\* provider's metadata for the (title, author) or ISBN they were asked about,
\* never the metadata of another pair, and they return null only when the
\* provider had no volume or failed.
CacheTransparent ==
  lookup.op \in {"searchBook", "getBookByISBN"} =>
    /\ lookup.result[1] # NoMeta => lookup.result[1] = MetaFor(QueryOf(lookup.books[1]))
    /\ lookup.result[1] = NoMeta => lookup.outs[1] # "found"

\* C28: enrichBookData returns one element per input book, in input order:
\* the metadata of that book, or null when its lookup found nothing or
\* failed, each element being what the lookup of that book alone gives.
EnrichKeepsShape ==
  lookup.op = "enrichBookData" =>
    /\ Len(lookup.result) = Len(lookup.books)
    /\ \A i \in 1..Len(lookup.books) :
          /\ lookup.result[i] \in {NoMeta, MetaFor(QueryOf(lookup.books[i]))}
          /\ lookup.result[i] = NoMeta => lookup.outs[i] # "found"

\* C24: every client borrowed from the pool is released exactly once on
\* every exit path: when transaction() has returned or thrown, and when the
\* startup connection test has ended, with its query succeeding or failing,
\* the client it borrowed is back in the pool after one release().
EveryClientReleased ==
  /\ \A c \in {"test", "tx"} : pool.released[c] <= 1
  /\ pool.tx \in {"returned", "thrown"} => "tx" \notin pool.out
  /\ pool.test = "done" => "test" \notin pool.out

\* C26: recommendation generation is called with at most 5 detected books,
\* and with the first 5 in detection order when more were detected, in the
\* inline pipeline and in the phased GET .../recommendations call.
FirstFiveInDetectionOrder ==
  slice.via # "none" =>
    /\ Len(slice.sent) <= 5
    /\ slice.sent = Take(slice.detected, 5)

\* the loop has sent at most 31 requests; it is stopped once an answer was
\* completed, failed or a request error; stopped on another answer, it has
\* sent 31 requests and shows failed with the timeout message
PollBounded ==
  /\ poller.requests <= 31
  /\ poller.last \in {"completed", "failed", "error"} => poller.at = "stopped"
  /\ (poller.at = "stopped" /\ poller.last \notin {"completed", "failed", "error"})
       => /\ poller.requests = 31
          /\ poller.status = "failed"
          /\ poller.error = "Processing timeout - please try again"

\* a stopped loop sends no further request
StoppedStays == poller.at = "stopped" => poller' = poller

\* C30: the polling loop of the non-phased Results component always
\* terminates: it stops at the first completed or failed response and at the
\* first request error, otherwise after 30 re-polls (31 requests) in the
\* failed state with a timeout message, and once stopped it sends no request.
PollingTerminates ==
  /\ []PollBounded
  /\ [][StoppedStays]_vars
  /\ <>(poller.at = "stopped")

\* the loop has stopped on the timeout after its 31st request
PollingTerminatesWitness ==
  /\ poller.at = "stopped"
  /\ poller.requests = 31
  /\ poller.attempts = 30
  /\ poller.last = "processing"
  /\ poller.error = "Processing timeout - please try again"

\* C29: for one sessionId the phased Results component sends at most one
\* GET .../recommendations request, however often its polling effect runs
\* and however many polls see completed_detection without recommendations
\* before the first request has ended.
OneRecommendationsRequest == viewer.requests <= 1

=============================================================================
